---- MODULE Spec2Model ----
(***************************************************************************)
(* Model of src/mapa2.py, create_and_export_corrosion_zones: the scan for  *)
(* the coastline shapefile, the alignment of coordinate systems, the       *)
(* per-band construction of distance zones around the merged coastline,    *)
(* their clipping to the Alagoas boundary, the assembly of the zones and   *)
(* the final reprojection, export and rendering.                           *)
(*                                                                         *)
(* Geometry.  The plane is modelled by a cross-section: a line cut into    *)
(* cells 0..2*GridN.  An even cell 2k is the point at k km, an odd cell    *)
(* 2k+1 is the open stretch between the points k and k+1.  A geometry is   *)
(* a set of cells.  The coastline is a set of points; a polygon, as        *)
(* shapely and GEOS produce it, is a closed set made of stretches and the  *)
(* points that end them: buffer, difference and intersection return such   *)
(* closed sets (the closure of the set-theoretic result, lower-dimension   *)
(* leftovers dropped).  Distances are kept doubled, in half kilometres,    *)
(* so that the distance of a cell to the coastline is an integer: even     *)
(* for a point, odd for a stretch (all of whose points lie strictly        *)
(* between the two neighbouring whole distances).                          *)
(***************************************************************************)
EXTENDS Integers, Sequences, FiniteSets, TLC

VARIABLES
    pc,               \* position in create_and_export_corrosion_zones
    tree,             \* the extracted "temp" tree as os.walk yields it
    dirIdx,           \* directory the outer loop of the scan is at
    fileIdx,          \* file the inner loop of the scan is at (0: no directory open)
    shapefile_path,   \* line 20
    read_arg,         \* argument gpd.read_file was last called with (line 27)
    coastline,        \* lines 27, 35
    alagoas,          \* line 32
    coastline_utm,    \* line 39
    alagoas_utm,      \* line 40
    zones_data,       \* line 43
    merged_coastline, \* line 51
    i,                \* index of the band the loop of line 53 is at
    zone,             \* loop variable of lines 55-66
    zones_list,       \* line 50
    zones,            \* line 70
    zones_wgs84,      \* line 73
    err,              \* exception escaping the function, "none" if none
    log,              \* geometry and I/O operations executed so far, in order
    built             \* per band processed so far, the zone geometry before clipping

vars == <<pc, tree, dirIdx, fileIdx, shapefile_path, read_arg, coastline, alagoas,
          coastline_utm, alagoas_utm, zones_data, merged_coastline, i, zone,
          zones_list, zones, zones_wgs84, err, log, built>>

-----------------------------------------------------------------------------
(* Bounds *)

\* the plane is the line from 0 km to GridN km
GridN == 22

Grid == 0 .. 2 * GridN
OddCells == {c \in Grid : c % 2 = 1}
Infinity == 8 * GridN + 1000

None == <<>>
NoFrame == [crs |-> "None", rows |-> <<>>]

-----------------------------------------------------------------------------
(* Pure helpers *)

Abs(x) == IF x < 0 THEN -x ELSE x

SetMin(S) == CHOOSE m \in S : \A n \in S : m <= n

RECURSIVE Flatten(_)
Flatten(ss) == IF ss = <<>> THEN <<>> ELSE Head(ss) \o Flatten(Tail(ss))

RECURSIVE UnionOfRows(_)
UnionOfRows(rows) ==
    IF rows = <<>> THEN {} ELSE Head(rows).geometry \cup UnionOfRows(Tail(rows))

\* str.endswith
endswith(s, suffix) ==
    /\ Len(s) >= Len(suffix)
    /\ SubSeq(s, Len(s) - Len(suffix) + 1, Len(s)) = suffix

\* os.path.join(root, file)
path_join(root, file) == <<root, file>>

-----------------------------------------------------------------------------
(* Geometry kernel: what shapely / GEOS compute on closed sets *)

\* the stretches (full-dimensional part) of a geometry
Stretches(g) == {c \in g : c % 2 = 1}

\* a closed set: every stretch comes with the two points that end it
Closure(S) == S \cup {c - 1 : c \in Stretches(S)} \cup {c + 1 : c \in Stretches(S)}

\* doubled planar distance from cell c to the nearest point of g
Dist2(c, g) == IF g = {} THEN Infinity ELSE SetMin({Abs(c - q) : q \in g})

\* geometry.buffer(r): the polygon of everything within r km of g
buffer(g, r) == Closure({c \in OddCells : Dist2(c, g) < 2 * r})

\* faulty variant of difference: the plain set difference, which is not closed
difference_open(a, b) == a \ b

\* a.difference(b): the polygon left of a once b is taken away
difference(a, b) == Closure(Stretches(a) \ b)

\* faulty variant of intersection: the whole second polygon wherever the two overlap
intersection_whole_boundary(a, b) == IF Stretches(a) \cap b = {} THEN {} ELSE b

\* polygon intersection as gpd.overlay(how='intersection') keeps it
intersection(a, b) == Closure(Stretches(a) \cap b)

\* GeoSeries.union_all()
union_all(df) == UnionOfRows(df.rows)

-----------------------------------------------------------------------------
(* Coordinate reference systems *)

utm_crs == "EPSG:32724"
wgs84_crs == "EPSG:4326"

\* where the origin of the metric frame lies in each system's own coordinates
Origin(crs) ==
    CASE crs = "EPSG:32724" -> 0
      [] crs = "EPSG:4326" -> 200
      [] crs = "EPSG:4674" -> 400
      [] OTHER -> 0

Reproject(g, src, dst) == {c - Origin(src) + Origin(dst) : c \in g}

\* GeoDataFrame.to_crs raises on a frame without a CRS or without a target
CanReproject(df, crs) == df.crs # "None" /\ crs # "None"

to_crs(df, crs) ==
    [crs |-> crs,
     rows |-> [k \in DOMAIN df.rows |->
                 [df.rows[k] EXCEPT !.geometry = Reproject(@, df.crs, crs)]]]

-----------------------------------------------------------------------------
(* Frames *)

\* gpd.GeoDataFrame(geometry=[g], crs=crs)
GeoDataFrame(g, crs) == [crs |-> crs, rows |-> <<[geometry |-> g]>>]

\* the pairs of rows of df1 and df2, intersected, in row order
OverlayPairs(df1, df2) ==
    Flatten([a \in DOMAIN df1.rows |->
               [b \in DOMAIN df2.rows |->
                  [geometry |-> intersection(df1.rows[a].geometry, df2.rows[b].geometry),
                   SIGLA_UF |-> df2.rows[b].SIGLA_UF]]])

NonEmptyRow(r) == r.geometry # {}

\* gpd.overlay(df1, df2, how='intersection'): empty intersections give no row
overlay(df1, df2) ==
    [crs |-> df1.crs, rows |-> SelectSeq(OverlayPairs(df1, df2), NonEmptyRow)]

\* GeoDataFrame.empty
empty(df) == df.rows = <<>>

\* zone['Zone'] = name
SetZone(df, name) ==
    [crs |-> df.crs,
     rows |-> [k \in DOMAIN df.rows |->
                 [geometry |-> df.rows[k].geometry,
                  SIGLA_UF |-> df.rows[k].SIGLA_UF,
                  Zone |-> name]]]

RECURSIVE ConcatRows(_)
ConcatRows(frames) ==
    IF frames = <<>> THEN <<>> ELSE Head(frames).rows \o ConcatRows(Tail(frames))

\* pd.concat(frames, ignore_index=True)
concat(frames) == [crs |-> frames[1].crs, rows |-> ConcatRows(frames)]

IsAL(r) == r.SIGLA_UF = "AL"

\* brasil[brasil['SIGLA_UF'] == 'AL']
SelectAL(brasil) == [crs |-> brasil.crs, rows |-> SelectSeq(brasil.rows, IsAL)]

-----------------------------------------------------------------------------
(* Inputs: the extracted archive, the two shapefiles, the band table *)

Dir(root, files) == [root |-> root, files |-> files]

\* extracted trees, each in the order os.walk("temp") visits it
Trees ==
    { <<Dir("temp", <<>>)>>,
      <<Dir("temp", <<"leia.txt">>), Dir("temp/A", <<"costa.SHP", "shp">>)>>,
      <<Dir("temp", <<"costa.dbf", "costa.shp", "velha.shp">>)>>,
      <<Dir("temp", <<"a.shp">>), Dir("temp/A", <<"b.dbf">>), Dir("temp/B", <<>>)>>,
      <<Dir("temp", <<"leia.txt">>), Dir("temp/A", <<"a.shp", "b.shp">>),
        Dir("temp/B", <<"c.dbf", "c.shp">>), Dir("temp/B/C", <<"c.shx">>)>> }

InputCrs == {"EPSG:32724", "EPSG:4326", "EPSG:4674", "None"}
BoundaryCrs == {"EPSG:4674", "EPSG:4326", "None"}

Feature(g) == [geometry |-> g]

\* coastlines, as point sets of the metric frame (cells); one feature per row
Coastlines ==
    { <<>>,
      <<Feature({2})>>,
      <<Feature({0}), Feature({8})>>,
      <<Feature({10}), Feature({30}), Feature({10, 30})>>,
      <<Feature({4, 6}), Feature({6, 2 * GridN})>> }

CoastlineFiles ==
    {to_crs([crs |-> utm_crs, rows |-> rows], crs) : rows \in Coastlines,
                                                       crs \in InputCrs \ {"None"}}
    \cup {[crs |-> "None", rows |-> rows] : rows \in Coastlines}

UF(sigla, from, to) == [SIGLA_UF |-> sigla, geometry |-> (2 * from) .. (2 * to)]

\* state polygons of the boundary file, as stretches from..to km of the metric frame
Boundaries ==
    { <<UF("PE", 0, 4)>>,
      <<UF("AL", 0, GridN)>>,
      <<UF("PE", 0, 1), UF("AL", 1, 6), UF("AL", 6, 9)>>,
      <<UF("AL", 3, 12), UF("SE", 12, 14)>>,
      <<UF("AL", 0, 2), UF("PE", 2, 7), UF("AL", 7, 12)>>,
      <<UF("AL", GridN - 1, GridN)>> }

BrasilFiles ==
    {to_crs([crs |-> utm_crs, rows |-> rows], crs) : rows \in Boundaries,
                                                       crs \in BoundaryCrs \ {"None"}}
    \cup {[crs |-> "None", rows |-> rows] : rows \in {<<UF("AL", 0, GridN)>>}}

\* the band table of lines 43-48, distances in km
zones_data_configured ==
    << <<"C5 - Muito Alta", 0, 2>>,
       <<"C4 - Alta", 2, 5>>,
       <<"C3 - Média", 5, 10>>,
       <<"C2 - Baixa", 10, 20>> >>

\* band tables the loop is run over.  The code has the one table of lines 43-48;
\* the properties speak of every band and every table, so the loop is also run
\* over variations of it: other radii, a first band with inner # 0, bands that
\* overlap or leave a gap, bands with outer <= inner, a label without a colour
BandTables ==
    { zones_data_configured,
      << <<"C5 - Muito Alta", 0, 1>>, <<"C4 - Alta", 1, 3>> >>,
      << <<"C4 - Alta", 2, 4>>, <<"C3 - Média", 4, 5>> >>,
      << <<"C5 - Muito Alta", 0, 3>>, <<"C4 - Alta", 2, 4>>, <<"C2 - Baixa", 6, 7>> >>,
      << <<"C4 - Alta", 5, 2>>, <<"C5 - Muito Alta", 0, 2>>, <<"C3 - Média", 3, 3>>,
         <<"C2 - Baixa", 0, 0>> >>,
      << <<"C4 - Alta", 4, 1>> >>,
      << <<"Zona X", 0, 1>>, <<"C5 - Muito Alta", 1, 2>> >> }

\* the colour table of lines 98-103 (its keys)
colors == {"C5 - Muito Alta", "C4 - Alta", "C3 - Média", "C2 - Baixa"}

-----------------------------------------------------------------------------
(* Log of executed operations *)

\* op: the operation; band: the band it is executed for (0: none); radius: the
\* radius of a buffer (else 0); crs: the CRS of the geometry operated on (for
\* to_crs, the target); with: for to_crs the frame reprojected, for clip the CRS
\* of the boundary frame
Op(op, band, radius, crs, with) ==
    [op |-> op, band |-> band, radius |-> radius, crs |-> crs, with |-> with]

-----------------------------------------------------------------------------
(* Initial state: the archive has been extracted to "temp" (lines 13-18) *)

Init ==
    /\ pc = "walk"
    /\ tree \in Trees
    /\ dirIdx = 0
    /\ fileIdx = 0
    /\ shapefile_path = None
    /\ read_arg = "not called"
    /\ coastline = NoFrame
    /\ alagoas = NoFrame
    /\ coastline_utm = NoFrame
    /\ alagoas_utm = NoFrame
    /\ zones_data = <<>>
    /\ merged_coastline = {}
    /\ i = 0
    /\ zone = {}
    /\ zones_list = <<>>
    /\ zones = NoFrame
    /\ zones_wgs84 = NoFrame
    /\ err = "none"
    /\ log = <<>>
    /\ built = <<>>

-----------------------------------------------------------------------------
(* Lines 20-25: the scan for the shapefile *)

\* faulty variant of NextFileIdx: the break of line 25 is missing
NextFileIdx_no_break(files, f, matched) ==
    IF f = Len(files) THEN 0 ELSE f + 1

\* where the inner loop goes after looking at file f of files:
\* 0 (loop left) on a match, by the break, or after the last file
NextFileIdx(files, f, matched) ==
    IF matched \/ f = Len(files) THEN 0 ELSE f + 1

\* line 21: os.walk yields the next directory; line 22 starts on its files
WalkNext ==
    /\ pc = "walk" /\ fileIdx = 0 /\ dirIdx < Len(tree)
    /\ dirIdx' = dirIdx + 1
    /\ fileIdx' = IF tree[dirIdx + 1].files = <<>> THEN 0 ELSE 1
    /\ UNCHANGED <<pc, tree, shapefile_path, read_arg, coastline, alagoas,
                   coastline_utm, alagoas_utm, zones_data, merged_coastline, i, zone,
                   zones_list, zones, zones_wgs84, err, log, built>>

\* lines 22-25: one iteration of the inner loop
ScanFile ==
    /\ pc = "walk" /\ fileIdx >= 1
    /\ LET root == tree[dirIdx].root
           files == tree[dirIdx].files
           file == files[fileIdx]
           matched == endswith(file, ".shp")
       IN /\ shapefile_path' = IF matched THEN path_join(root, file) ELSE shapefile_path
          /\ fileIdx' = NextFileIdx(files, fileIdx, matched)
    /\ UNCHANGED <<pc, tree, dirIdx, read_arg, coastline, alagoas,
                   coastline_utm, alagoas_utm, zones_data, merged_coastline, i, zone,
                   zones_list, zones, zones_wgs84, err, log, built>>

\* line 21: os.walk is exhausted
WalkDone ==
    /\ pc = "walk" /\ fileIdx = 0 /\ dirIdx = Len(tree)
    /\ pc' = "read_coastline"
    /\ UNCHANGED <<tree, dirIdx, fileIdx, shapefile_path, read_arg, coastline, alagoas,
                   coastline_utm, alagoas_utm, zones_data, merged_coastline, i, zone,
                   zones_list, zones, zones_wgs84, err, log, built>>

-----------------------------------------------------------------------------
(* Lines 27-40: reading the two files and aligning coordinate systems *)

\* line 27: gpd.read_file(shapefile_path); it cannot read from None
ReadCoastline ==
    /\ pc = "read_coastline"
    /\ read_arg' = shapefile_path
    /\ IF shapefile_path = None
       THEN /\ pc' = "error" /\ err' = "read_file"
            /\ UNCHANGED coastline
       ELSE /\ pc' = "read_brasil"
            /\ coastline' \in CoastlineFiles
            /\ UNCHANGED err
    /\ UNCHANGED <<tree, dirIdx, fileIdx, shapefile_path, alagoas,
                   coastline_utm, alagoas_utm, zones_data, merged_coastline, i, zone,
                   zones_list, zones, zones_wgs84, log, built>>

\* lines 31-32
ReadBrasil ==
    /\ pc = "read_brasil"
    /\ \E brasil \in BrasilFiles : alagoas' = SelectAL(brasil)
    /\ pc' = "align_crs"
    /\ UNCHANGED <<tree, dirIdx, fileIdx, shapefile_path, read_arg, coastline,
                   coastline_utm, alagoas_utm, zones_data, merged_coastline, i, zone,
                   zones_list, zones, zones_wgs84, err, log, built>>

\* lines 34-35
AlignCrs ==
    /\ pc = "align_crs"
    /\ IF coastline.crs # alagoas.crs
       THEN IF CanReproject(coastline, alagoas.crs)
            THEN /\ coastline' = to_crs(coastline, alagoas.crs)
                 /\ log' = Append(log, Op("to_crs", 0, 0, alagoas.crs, "coastline"))
                 /\ pc' = "to_utm"
                 /\ UNCHANGED err
            ELSE /\ pc' = "error" /\ err' = "to_crs"
                 /\ UNCHANGED <<coastline, log>>
       ELSE /\ pc' = "to_utm"
            /\ UNCHANGED <<coastline, log, err>>
    /\ UNCHANGED <<tree, dirIdx, fileIdx, shapefile_path, read_arg, alagoas,
                   coastline_utm, alagoas_utm, zones_data, merged_coastline, i, zone,
                   zones_list, zones, zones_wgs84, built>>

\* lines 38-40
ToUtm ==
    /\ pc = "to_utm"
    /\ IF CanReproject(coastline, utm_crs) /\ CanReproject(alagoas, utm_crs)
       THEN /\ coastline_utm' = to_crs(coastline, utm_crs)
            /\ alagoas_utm' = to_crs(alagoas, utm_crs)
            /\ log' = log \o <<Op("to_crs", 0, 0, utm_crs, "coastline"),
                               Op("to_crs", 0, 0, utm_crs, "alagoas")>>
            /\ pc' = "zones_data"
            /\ UNCHANGED err
       ELSE /\ pc' = "error" /\ err' = "to_crs"
            /\ UNCHANGED <<coastline_utm, alagoas_utm, log>>
    /\ UNCHANGED <<tree, dirIdx, fileIdx, shapefile_path, read_arg, coastline, alagoas,
                   zones_data, merged_coastline, i, zone,
                   zones_list, zones, zones_wgs84, built>>

-----------------------------------------------------------------------------
(* Lines 43-67: the bands *)

\* lines 43-51
CreateZonesData ==
    /\ pc = "zones_data"
    /\ zones_data' \in BandTables
    /\ zones_list' = <<>>
    /\ merged_coastline' = union_all(coastline_utm)
    /\ i' = 1
    /\ pc' = "loop"
    /\ UNCHANGED <<tree, dirIdx, fileIdx, shapefile_path, read_arg, coastline, alagoas,
                   coastline_utm, alagoas_utm, zone, zones, zones_wgs84, err, log, built>>

\* faulty variant of build_zone: the inner = 0 shortcut of line 54 is missing
build_zone_always_subtract(g, k, inner, outer, crs) ==
    [geometry |-> difference(buffer(g, outer), buffer(g, inner)),
     ops |-> <<Op("buffer", k, outer, crs, ""),
               Op("buffer", k, inner, crs, ""),
               Op("difference", k, 0, crs, "")>>]

\* faulty variant of build_zone: the inner buffer is never taken away
build_zone_never_subtract(g, k, inner, outer, crs) ==
    [geometry |-> buffer(g, outer),
     ops |-> <<Op("buffer", k, outer, crs, "")>>]

\* lines 54-59 for band k = (name, inner, outer) around the merged coastline g,
\* which is in CRS crs: the zone geometry and the operations executed for it
build_zone(g, k, inner, outer, crs) ==
    IF inner = 0
    THEN [geometry |-> buffer(g, outer),
          ops |-> <<Op("buffer", k, outer, crs, "")>>]
    ELSE LET outer_buffer == buffer(g, outer)
             inner_buffer == buffer(g, inner)
         IN [geometry |-> difference(outer_buffer, inner_buffer),
             ops |-> <<Op("buffer", k, outer, crs, ""),
                       Op("buffer", k, inner, crs, ""),
                       Op("difference", k, 0, crs, "")>>]

\* lines 53-59: the loop takes the next band and builds its zone
BuildZone ==
    /\ pc = "loop" /\ i <= Len(zones_data)
    /\ LET inner == zones_data[i][2]
           outer == zones_data[i][3]
           b == build_zone(merged_coastline, i, inner, outer, coastline_utm.crs)
       IN /\ zone' = b.geometry
          /\ log' = log \o b.ops
          /\ built' = Append(built, b.geometry)
    /\ pc' = "clip"
    /\ UNCHANGED <<tree, dirIdx, fileIdx, shapefile_path, read_arg, coastline, alagoas,
                   coastline_utm, alagoas_utm, zones_data, merged_coastline, i,
                   zones_list, zones, zones_wgs84, err>>

\* faulty variant of clip: the zone is tagged with the state but not cut to it
clip_not_cut(g, crs, boundary) ==
    [crs |-> crs,
     rows |-> IF g = {} \/ boundary.rows = <<>> THEN <<>>
              ELSE <<[geometry |-> g, SIGLA_UF |-> boundary.rows[1].SIGLA_UF]>>]

\* lines 62-63: clip the zone to Alagoas
clip(g, crs, boundary) == overlay(GeoDataFrame(g, crs), boundary)

\* faulty variant of ClipZone: the zone is clipped to alagoas, not alagoas_utm
ClipZone_alagoas ==
    /\ pc = "clip"
    /\ zone' = clip(zone, utm_crs, alagoas)
    /\ log' = Append(log, Op("clip", i, 0, utm_crs, alagoas.crs))
    /\ pc' = "assemble"
    /\ UNCHANGED <<tree, dirIdx, fileIdx, shapefile_path, read_arg, coastline, alagoas,
                   coastline_utm, alagoas_utm, zones_data, merged_coastline, i,
                   zones_list, zones, zones_wgs84, err, built>>

ClipZone ==
    /\ pc = "clip"
    /\ zone' = clip(zone, utm_crs, alagoas_utm)
    /\ log' = Append(log, Op("clip", i, 0, utm_crs, alagoas_utm.crs))
    /\ pc' = "assemble"
    /\ UNCHANGED <<tree, dirIdx, fileIdx, shapefile_path, read_arg, coastline, alagoas,
                   coastline_utm, alagoas_utm, zones_data, merged_coastline, i,
                   zones_list, zones, zones_wgs84, err, built>>

\* faulty variant of assemble: the frame is put in front of the list
assemble_in_front(list, df, name) ==
    IF ~ empty(df) THEN <<SetZone(df, name)>> \o list ELSE list

\* lines 65-67: what zones_list is after the clipped frame of band name
assemble(list, df, name) ==
    IF ~ empty(df) THEN Append(list, SetZone(df, name)) ELSE list

AssembleZone ==
    /\ pc = "assemble"
    /\ zones_list' = assemble(zones_list, zone, zones_data[i][1])
    /\ zone' = IF ~ empty(zone) THEN SetZone(zone, zones_data[i][1]) ELSE zone
    /\ i' = i + 1
    /\ pc' = "loop"
    /\ UNCHANGED <<tree, dirIdx, fileIdx, shapefile_path, read_arg, coastline, alagoas,
                   coastline_utm, alagoas_utm, zones_data, merged_coastline,
                   zones, zones_wgs84, err, log, built>>

-----------------------------------------------------------------------------
(* Lines 70-154: assembly, reprojection, export, map *)

\* line 70: pd.concat raises ValueError on an empty list
Concat ==
    /\ pc = "loop" /\ i > Len(zones_data)
    /\ IF zones_list = <<>>
       THEN /\ pc' = "error" /\ err' = "ValueError"
            /\ UNCHANGED zones
       ELSE /\ zones' = concat(zones_list)
            /\ pc' = "to_wgs84"
            /\ UNCHANGED err
    /\ UNCHANGED <<tree, dirIdx, fileIdx, shapefile_path, read_arg, coastline, alagoas,
                   coastline_utm, alagoas_utm, zones_data, merged_coastline, i, zone,
                   zones_list, zones_wgs84, log, built>>

\* line 73
ToWgs84 ==
    /\ pc = "to_wgs84"
    /\ zones_wgs84' = to_crs(zones, wgs84_crs)
    /\ log' = Append(log, Op("to_crs", 0, 0, wgs84_crs, "zones"))
    /\ pc' = "export"
    /\ UNCHANGED <<tree, dirIdx, fileIdx, shapefile_path, read_arg, coastline, alagoas,
                   coastline_utm, alagoas_utm, zones_data, merged_coastline, i, zone,
                   zones_list, zones, err, built>>

\* lines 77-85: shapefile, GeoJSON and, when fiona has the driver, KML
Export ==
    /\ pc = "export"
    /\ \E kml \in BOOLEAN :
         log' = log \o <<Op("export", 0, 0, zones_wgs84.crs, "shp"),
                         Op("export", 0, 0, zones_wgs84.crs, "geojson")>>
                    \o (IF kml THEN <<Op("export", 0, 0, zones_wgs84.crs, "kml")>>
                        ELSE <<>>)
    /\ pc' = "render"
    /\ UNCHANGED <<tree, dirIdx, fileIdx, shapefile_path, read_arg, coastline, alagoas,
                   coastline_utm, alagoas_utm, zones_data, merged_coastline, i, zone,
                   zones_list, zones, zones_wgs84, err, built>>

\* lines 88-154: colors[row['Zone']] raises KeyError on a label without a colour
RenderMap ==
    /\ pc = "render"
    /\ IF \A k \in DOMAIN zones_wgs84.rows : zones_wgs84.rows[k].Zone \in colors
       THEN /\ log' = Append(log, Op("render", 0, 0, zones_wgs84.crs, "html"))
            /\ pc' = "done"
            /\ UNCHANGED err
       ELSE /\ pc' = "error" /\ err' = "KeyError"
            /\ UNCHANGED log
    /\ UNCHANGED <<tree, dirIdx, fileIdx, shapefile_path, read_arg, coastline, alagoas,
                   coastline_utm, alagoas_utm, zones_data, merged_coastline, i, zone,
                   zones_list, zones, zones_wgs84, built>>

Next ==
    \/ WalkNext \/ ScanFile \/ WalkDone
    \/ ReadCoastline \/ ReadBrasil \/ AlignCrs \/ ToUtm
    \/ CreateZonesData \/ BuildZone \/ ClipZone \/ AssembleZone
    \/ Concat \/ ToWgs84 \/ Export \/ RenderMap

Spec == Init /\ [][Next]_vars

-----------------------------------------------------------------------------
(* Vocabulary of the properties *)

Label(k) == zones_data[k][1]
Inner(k) == zones_data[k][2]
Outer(k) == zones_data[k][3]

\* doubled distance of cell c to the reference curve
D2(c) == Dist2(c, merged_coastline)

\* area of a polygon, in km
Area(g) == Cardinality(Stretches(g))

RECURSIVE SumArea(_)
SumArea(rows) == IF rows = <<>> THEN 0 ELSE Area(Head(rows).geometry) + SumArea(Tail(rows))

\* the entries collected so far, one per row
Entries == ConcatRows(zones_list)

\* the clipped geometry collected for band k (empty when the band was skipped)
ClippedOf(k) == UnionOfRows(SelectSeq(Entries, LAMBDA r : r.Zone = Label(k)))

\* position in the band table of the band an entry is labelled with
BandIndex(label) == CHOOSE k \in DOMAIN zones_data : zones_data[k][1] = label

IsGeometryOp(e) == e.op \in {"buffer", "difference", "clip"}

\* the buffers and differences executed for band k, in order
BandOps(k) == SelectSeq(log, LAMBDA e : e.band = k /\ e.op \in {"buffer", "difference"})

ValidBand(k) == 0 <= Inner(k) /\ Inner(k) < Outer(k)

Adjacent(k) == k + 1 \in DOMAIN built /\ Outer(k) = Inner(k + 1)

\* the boundary the zones are clipped to
Boundary == union_all(alagoas_utm)

-----------------------------------------------------------------------------
(* C1 *)

-----------------------------------------------------------------------------
(* C2 *)

\* C2: for a band with inner = 0 the zone built is the buffer at radius outer
\* and the only operation executed for it is that one buffer; for a band with
\* inner # 0 the outer buffer, the inner buffer and the difference are executed.
C2_InnerZeroIsOuterBuffer ==
    \A k \in DOMAIN built :
        IF Inner(k) = 0
        THEN /\ built[k] = buffer(merged_coastline, Outer(k))
             /\ BandOps(k) = <<Op("buffer", k, Outer(k), utm_crs, "")>>
        ELSE /\ built[k] = difference(buffer(merged_coastline, Outer(k)),
                                      buffer(merged_coastline, Inner(k)))
             /\ BandOps(k) = <<Op("buffer", k, Outer(k), utm_crs, ""),
                               Op("buffer", k, Inner(k), utm_crs, ""),
                               Op("difference", k, 0, utm_crs, "")>>

\* a band with inner = 0 and a band with inner # 0 have been built, both non-empty
C2_Witness ==
    \E j, k \in DOMAIN built :
        /\ Inner(j) = 0 /\ built[j] # {}
        /\ Inner(k) # 0 /\ built[k] # {}

-----------------------------------------------------------------------------
(* C3 *)

-----------------------------------------------------------------------------
(* C4 *)

AllBandsDone == zones_data # <<>> /\ pc # "loop" /\ i > Len(zones_data)

\* C4: when every band's clip result is empty, the run gets past the assembly
\* with an empty zone collection and no error.
C4_EmptyCollectionIsNoError ==
    (AllBandsDone /\ zones_list = <<>>) =>
        (err = "none" /\ pc # "error" /\ zones.rows = <<>>)

-----------------------------------------------------------------------------
(* C5 *)

HasInvalidBand == \E k \in DOMAIN zones_data : Outer(k) <= Inner(k)

-----------------------------------------------------------------------------
(* C6 *)

Labels == {zones_data[k][1] : k \in DOMAIN zones_data}

GoodEntry(r) ==
    /\ r.geometry # {}
    /\ r.geometry \subseteq Boundary
    /\ r.Zone \in Labels

\* the bands whose iteration is over
BandsDone == {k \in DOMAIN zones_data : k < i}

\* C6: after every iteration of the loop and in the assembled collection every
\* entry has a non-empty geometry inside the clip boundary and the label of a
\* supplied band; a band whose clip result is empty contributes no entry (no
\* empty frame is collected, and a band has entries exactly when its zone
\* shares area with the boundary).
C6_EntriesNonEmptyInsideLabelled ==
    /\ \A n \in DOMAIN Entries : GoodEntry(Entries[n])
    /\ \A n \in DOMAIN zones.rows : GoodEntry(zones.rows[n])
    /\ \A f \in DOMAIN zones_list : ~ empty(zones_list[f])
    /\ pc = "loop" =>
         \A k \in BandsDone :
             (\E n \in DOMAIN Entries : Entries[n].Zone = Label(k))
                 <=> Stretches(built[k]) \cap Boundary # {}
    /\ pc \in {"to_wgs84", "export", "render", "done"} => zones.rows = Entries

\* the collection has been assembled with entries of two bands, one of them in
\* two parts, after at least one band was skipped as empty
C6_Witness ==
    /\ pc = "to_wgs84"
    /\ Len(zones.rows) >= 3
    /\ Len(zones_list) >= 2
    /\ Len(zones_list) < Len(zones_data)

-----------------------------------------------------------------------------
(* C7 *)

\* C7: bands are processed one after another in input order, and the entries
\* of the collection are in band input order, whichever bands were skipped.
C7_InputOrderPreserved ==
    /\ \A a, b \in DOMAIN Entries :
           a < b => BandIndex(Entries[a].Zone) <= BandIndex(Entries[b].Zone)
    /\ \A a, b \in DOMAIN zones.rows :
           a < b => BandIndex(zones.rows[a].Zone) <= BandIndex(zones.rows[b].Zone)
    /\ \A a, b \in DOMAIN log :
           (a < b /\ IsGeometryOp(log[a]) /\ IsGeometryOp(log[b]))
               => log[a].band <= log[b].band
    /\ \A n \in DOMAIN log : IsGeometryOp(log[n]) => log[n].band <= i
    /\ Len(built) \in {i - 1, i}

\* three bands were processed, the middle one skipped as empty, and the
\* entries of the first and the last are assembled
C7_Witness ==
    /\ pc = "to_wgs84"
    /\ Len(zones_data) >= 3
    /\ \E k \in 2 .. Len(zones_data) - 1 :
           /\ ClippedOf(k) = {}
           /\ \E a, b \in DOMAIN zones.rows :
                  /\ BandIndex(zones.rows[a].Zone) < k
                  /\ BandIndex(zones.rows[b].Zone) > k

-----------------------------------------------------------------------------
(* C8 *)

MetricCrs == "EPSG:32724"
GeographicCrs == "EPSG:4326"

IsToCrs(e, what, crs) == e.op = "to_crs" /\ e.with = what /\ e.crs = crs

\* both inputs are in the metric CRS before the first buffer, and every
\* buffer, difference and clip runs on geometries of the metric CRS alone
MetricBeforeAndDuringBands ==
    /\ \A n \in DOMAIN log :
           log[n].op = "buffer" =>
               /\ \E a \in 1 .. n - 1 : IsToCrs(log[a], "coastline", MetricCrs)
               /\ \E a \in 1 .. n - 1 : IsToCrs(log[a], "alagoas", MetricCrs)
               /\ coastline_utm.crs = MetricCrs /\ alagoas_utm.crs = MetricCrs
    /\ \A n \in DOMAIN log :
           log[n].op \in {"buffer", "difference"} => log[n].crs = MetricCrs
    /\ \A n \in DOMAIN log :
           log[n].op = "clip" => (log[n].crs = MetricCrs /\ log[n].with = MetricCrs)

\* the one reprojection of `what` to the geographic CRS comes after every band
\* operation and before every export and rendering, which all come after one
GeographicOnceAfterBands(what(_)) ==
    /\ \A a, b \in DOMAIN log :
           (what(log[a]) /\ what(log[b])) => a = b
    /\ \A a, b \in DOMAIN log :
           (what(log[a]) /\ IsGeometryOp(log[b])) => b < a
    /\ \A a \in DOMAIN log :
           what(log[a]) => (i > Len(zones_data) /\ zones.rows = Entries)
    /\ \A b \in DOMAIN log :
           log[b].op \in {"export", "render"} =>
               \E a \in 1 .. b - 1 : what(log[a])

AnyToGeographic(e) == e.op = "to_crs" /\ e.crs = GeographicCrs
ZonesToGeographic(e) == IsToCrs(e, "zones", GeographicCrs)

\* C8 as stated: inputs reprojected to the metric CRS before the first buffer,
\* all band operations in the metric CRS, and reprojection to the geographic
\* CRS only once, after the last band and before any export or visualization.
C8_ProtocolOneGeographicReprojection ==
    /\ MetricBeforeAndDuringBands
    /\ GeographicOnceAfterBands(AnyToGeographic)

\* C8 amended: as stated, but it is the zone collection that is reprojected
\* to the geographic CRS only once, after the last band and before any export
\* or visualization; before the bands the raw coastline may itself be
\* reprojected to the boundary file's CRS, which may be the geographic one.
C8_ProtocolZonesReprojectedOnce ==
    /\ MetricBeforeAndDuringBands
    /\ GeographicOnceAfterBands(ZonesToGeographic)

\* a run that first aligned the coastline to the boundary file's CRS has built
\* and clipped its bands, reprojected the zones, exported and rendered them
C8_Witness ==
    /\ pc = "done"
    /\ log[1].op = "to_crs" /\ log[1].with = "coastline" /\ log[1].crs # MetricCrs
    /\ \E n \in DOMAIN log : log[n].op = "difference"
    /\ \E n \in DOMAIN log : ZonesToGeographic(log[n])

-----------------------------------------------------------------------------
(* C9 *)

\* C9: the clipped result is a subset of the zone and no larger in area; it is
\* the zone itself when the zone lies inside the boundary, and it is empty
\* when the zone lies outside the boundary.
C9_ClippingMonotone ==
    pc = "assemble" =>
        LET z == built[i]
            r == UnionOfRows(zone.rows)
        IN /\ r \subseteq z
           /\ SumArea(zone.rows) <= Area(z)
           /\ z \subseteq Boundary => (r = z /\ SumArea(zone.rows) = Area(z))
           /\ z \cap Boundary = {} => empty(zone)

\* a zone partly inside the boundary has been clipped: the result is non-empty
\* and strictly smaller than the zone
C9_Witness ==
    /\ pc = "assemble"
    /\ ~ empty(zone)
    /\ SumArea(zone.rows) < Area(built[i])
    /\ Len(zone.rows) >= 2

-----------------------------------------------------------------------------
(* C10 *)

HasShp(d) == \E f \in DOMAIN tree[d].files : endswith(tree[d].files[f], ".shp")

FirstShp(d) ==
    LET f == SetMin({g \in DOMAIN tree[d].files : endswith(tree[d].files[g], ".shp")})
    IN path_join(tree[d].root, tree[d].files[f])

\* the first ".shp" file of the last directory, among the first n, that has one
SelectedAfter(n) ==
    LET with == {d \in 1 .. n : HasShp(d)}
    IN IF with = {} THEN None
       ELSE FirstShp(CHOOSE d \in with : \A e \in with : e <= d)

\* C10: in a directory the scan stops at the first ".shp" file, it goes on into
\* every later directory, and after it the selected path is the first ".shp"
\* file of the last directory that has one; it is None exactly when the tree
\* has no ".shp" file, and the read is then still attempted, with None.
C10_LastDirectoryFirstShp ==
    /\ (pc = "walk" /\ fileIdx >= 1) =>
           /\ \A f \in 1 .. fileIdx - 1 : ~ endswith(tree[dirIdx].files[f], ".shp")
           /\ shapefile_path = SelectedAfter(dirIdx - 1)
    /\ (pc = "walk" /\ fileIdx = 0) => shapefile_path = SelectedAfter(dirIdx)
    /\ pc # "walk" =>
           /\ dirIdx = Len(tree)
           /\ shapefile_path = SelectedAfter(Len(tree))
           /\ shapefile_path = None <=> ~ \E d \in DOMAIN tree : HasShp(d)
    /\ pc \notin {"walk", "read_coastline"} => read_arg = shapefile_path

\* the scan of a tree with two directories holding ".shp" files, the later one
\* after a non-matching file, is over and the read was called with the path
C10_Witness ==
    /\ pc = "read_brasil"
    /\ Cardinality({d \in DOMAIN tree : HasShp(d)}) >= 2
    /\ \E d \in DOMAIN tree :
           Cardinality({f \in DOMAIN tree[d].files :
                           endswith(tree[d].files[f], ".shp")}) >= 2
    /\ read_arg = shapefile_path
    /\ shapefile_path # None

\* the scan of a tree without any ".shp" file is over and the read was
\* attempted with None
C10_WitnessNone ==
    /\ pc = "error"
    /\ read_arg = None
    /\ tree # <<>>

====
